---- MODULE Spec2Model ----
(***************************************************************************)
(* The Octopus component (src/src/Octopus.tsx) as a timed state machine.   *)
(*                                                                         *)
(* State: the nine useState cells, lastMouseMoveRef, svgRef, and the       *)
(* pending setTimeout callbacks with the refs that hold their handles.     *)
(* One action per timer callback and per event handler.  Time is in ms.    *)
(*                                                                         *)
(* Timers are kept per chain (gaze cycle, auto blink, flash sweep, random  *)
(* idle, pointer-enter).  Inside a chain every timer carries the time that *)
(* remains until it fires, and the earliest one fires first.  The phase of *)
(* one chain against another is left open: every chain is started by a     *)
(* delay drawn from a continuous range or by a pointer event, so the model *)
(* lets the chains interleave freely.  This admits every order real time   *)
(* admits (and some it does not), so an invariant of the model is an       *)
(* invariant of the component.                                             *)
(*                                                                         *)
(* A state setter (setIsBlinking, ...) is modelled as the write it asks    *)
(* for, at every moment of the component's life.  The component re-renders *)
(* after each write, so closures created by effects with dependencies are  *)
(* fresh (HandlerEyeMode) and closures of effects with an empty dependency *)
(* list keep the values of the first render (CyclePupilOffset).            *)
(*                                                                         *)
(* Nullable cells (randomPupil, flashRow) hold {} for null and {v} for v.  *)
(*                                                                         *)
(* Four history variables are not part of the component: starts counts     *)
(* the spontaneous events, event names the last of them, enterAlone tells  *)
(* whether the pending pointer-enter wave has been left undisturbed, and   *)
(* exitBlinkKept whether no other callback has opened the eyes since the   *)
(* cross-eyed blink closed them.                                           *)
(***************************************************************************)
EXTENDS Integers, Sequences, FiniteSets, TLC

VARIABLES timers, mouseIdle, pupilOffset, isBlinking, isCrossEyed, crossEyedY,
          isHovered, randomPupil, wiggleGroups, flashRow, eyeMode,
          svgRef, listening, starts, event, enterAlone, exitBlinkKept

vars == <<timers, mouseIdle, pupilOffset, isBlinking, isCrossEyed, crossEyedY,
          isHovered, randomPupil, wiggleGroups, flashRow, eyeMode,
          svgRef, listening, starts, event, enterAlone, exitBlinkKept>>

\* svgRef.current is set, and the effects are live.
mount == <<svgRef, listening>>

\* The spontaneous events so far, and the last of them.
history == <<starts, event>>

\* The controller state of the creature (the useState cells).
controller == <<pupilOffset, isBlinking, isCrossEyed, crossEyedY, isHovered,
                randomPupil, wiggleGroups, flashRow, eyeMode>>

----------------------------------------------------------------------------
\* Bounds of the exploration.

\* At most MaxStarts spontaneous events happen: firings of the timers the
\* four refs hold, and pointer events.
MaxStarts == 3

\* Math.random() in hundredths, for the draws that pick a branch.
BandRolls == {0, 24, 25, 39, 40, 59, 60, 79, 80, 99}

\* Math.random() in hundredths, for the draws that pick a value.
Rolls == {0, 45, 99}

\* Math.random() in hundredths, for the draws that stretch a duration.
JitterRolls == {0, 99}

\* The same for the delays of the four loops (tracking, blink, flash, idle):
\* the jitter of these never changes the order of two timers of a chain.
LoopJitterRolls == {0}

\* Time between a pointer-move and the gaze chain's previous event.
MoveGaps == {0, 3000, 3001}

\* Where the pointer can be (clientX, clientY).
Pointers == {[x |-> cx, y |-> cy] : cx \in {29, 30, 90, 91, 160},
                                    cy \in {-8, 11, 12, 72, 73}}

----------------------------------------------------------------------------
\* Program constants and pure helpers.

LOOK_DIRS == << [x |-> -1, y |-> -1], [x |-> 1, y |-> -1],
                [x |-> -1, y |-> 1],  [x |-> 1, y |-> 1],
                [x |-> 0, y |-> -1],  [x |-> 0, y |-> 1],
                [x |-> -1, y |-> 0],  [x |-> 1, y |-> 0] >>

\* getBoundingClientRect() of the svg: size 120 at the window origin.
Rect == [left |-> 0, top |-> 0, width |-> 120, height |-> 120]

Abs(n) == IF n < 0 THEN -n ELSE n

\* An axis whose dead-zone excludes its edge.
TrackAxisOpen(d) == IF Abs(d) >= 30 THEN (IF d > 0 THEN 1 ELSE -1) ELSE 0

\* One axis of the tracked target: 0 inside the dead-zone, else the sign.
TrackAxis(d) == IF Abs(d) > 30 THEN (IF d > 0 THEN 1 ELSE -1) ELSE 0

\* The reference point: the centre, 35% down from the top.
RefX == Rect.left + Rect.width \div 2
RefY == Rect.top + (Rect.height * 35) \div 100

\* The tracked target for a pointer at (clientX, clientY).
TrackedTarget(clientX, clientY) ==
    [x |-> TrackAxis(clientX - RefX), y |-> TrackAxis(clientY - RefY)]

Sign(n) == IF n < 0 THEN -1 ELSE IF n > 0 THEN 1 ELSE 0

\* base + Math.random() * jitter, in whole ms.
Delays(base, jitter) == {base + (r * jitter) \div 100 : r \in JitterRolls}
LoopDelays(base, jitter) == {base + (r * jitter) \div 100 : r \in LoopJitterRolls}

\* Math.floor(Math.random() * n)
Floor(roll, n) == (roll * n) \div 100

\* The pointer counts as idle after this many ms without a move (line 119).
\* mouseIdle stands for Date.now() - lastMouseMoveRef.current and stops
\* counting there.
IdleWindow == 2000

\* A handler that keeps the mode of the first render.
HandlerEyeModeStale == "track"

\* eyeMode as the registered mousemove handler sees it: the effect has
\* [eyeMode] as dependencies, so the handler is re-created on each change.
HandlerEyeMode == eyeMode

\* pupilOffset as the gaze cycle sees it: the effect has no dependencies, so
\* its closure keeps the value of the first render.
CyclePupilOffset == [x |-> 0, y |-> 0]

\* The directions the gaze cycle may wander to (lines 121-123).
Away ==
    LET mouseX == Sign(CyclePupilOffset.x)
        mouseY == Sign(CyclePupilOffset.y)
    IN  SelectSeq(LOOK_DIRS, LAMBDA d : d.x # mouseX \/ d.y # mouseY)

effectivePupil ==
    IF eyeMode = "wander" /\ randomPupil # {}
    THEN CHOOSE p \in randomPupil : TRUE
    ELSE pupilOffset

----------------------------------------------------------------------------
\* Render (lines 233-297): the pose as a function of the cells.

\* The per-axis pupil offset (lines 235-236).
pupilX == IF effectivePupil.x < 0 THEN 0 ELSE IF effectivePupil.x > 0 THEN 1 ELSE 0
pupilY == IF effectivePupil.y < 0 THEN 0 ELSE IF effectivePupil.y > 0 THEN 1 ELSE 0

\* A left pupil that follows the gaze whatever the cross-eye flag says.
leftPupilGaze == [x |-> 4 + pupilX, y |-> 3 + pupilY]

\* (leftPx, leftPy) and (rightPx, rightPy) (lines 238-244).
leftPupil ==
    IF isCrossEyed THEN [x |-> 5, y |-> crossEyedY]
    ELSE [x |-> 4 + pupilX, y |-> 3 + pupilY]

rightPupil ==
    IF isCrossEyed THEN [x |-> 7, y |-> crossEyedY]
    ELSE [x |-> 7 + pupilX, y |-> 3 + pupilY]

\* line 246
eyesClosed == isBlinking

\* The pupil rects that are rendered (lines 281-286).
Pupils == IF ~eyesClosed THEN <<leftPupil, rightPupil>> ELSE <<>>

\* The svg style (lines 256-260): the vertical translation in px, and the
\* drop-shadow filter.
svgTransform == IF isHovered THEN -8 ELSE 0
svgFilter == [dx |-> 0, dy |-> 0, blur |-> 4, color |-> "colors.glow"]

----------------------------------------------------------------------------
\* Timers.  timers[c] lists the pending timers of chain c as records
\* [cb, rem, arg, ref], earliest first and equal times in order of
\* registration; rem is the time left until the timer fires and ref names the
\* useRef that holds its handle ("none" when the handle is dropped).

RECURSIVE Insert(_, _)
Insert(q, t) ==
    IF q = <<>> THEN <<t>>
    ELSE IF q[1].rem <= t.rem THEN <<q[1]>> \o Insert(Tail(q), t)
    ELSE <<t>> \o q

\* setTimeout(cb, delay), handle dropped.
SetTimeout(q, cb, delay, arg) ==
    Insert(q, [cb |-> cb, rem |-> delay, arg |-> arg, ref |-> "none"])

\* ref.current = setTimeout(cb, delay): the ref forgets the handle it held.
SetTimeoutRef(q, cb, delay, ref) ==
    LET forgot == [i \in 1..Len(q) |->
                     IF q[i].ref = ref THEN [q[i] EXCEPT !.ref = "none"] ELSE q[i]]
    IN  Insert(forgot, [cb |-> cb, rem |-> delay, arg |-> {}, ref |-> ref])

\* clearTimeout(ref.current)
ClearTimeout(q, ref) == SelectSeq(q, LAMBDA t : t.ref # ref)

\* d ms pass for the timers of q.
Elapse(q, d) == [i \in 1..Len(q) |-> [q[i] EXCEPT !.rem = @ - d]]

\* The next timer of chain c is cb.
Fires(c, cb) == timers[c] # <<>> /\ timers[c][1].cb = cb

\* The other timers of chain c at the moment its first timer fires.
Rest(c) == Elapse(Tail(timers[c]), timers[c][1].rem)

\* One more spontaneous event: a ref-held timer fires or a pointer event is
\* delivered.  (The callbacks armed by a callback always run.)
Starts(e) == starts < MaxStarts /\ starts' = starts + 1 /\ event' = e

----------------------------------------------------------------------------
\* Eye mode cycle (lines 112-132).

\* A cycle() that keeps the wander target.
CycleKeepTarget(q, trackDur) ==
    /\ eyeMode' = "track"
    /\ UNCHANGED randomPupil
    /\ timers' = [timers EXCEPT !.eye = SetTimeoutRef(q, "trackExpire", trackDur, "eyeRef")]

\* cycle(): track, clear the wander target, arm the tracking timer.
Cycle(q, trackDur) ==
    /\ eyeMode' = "track"
    /\ randomPupil' = {}
    /\ timers' = [timers EXCEPT !.eye = SetTimeoutRef(q, "trackExpire", trackDur, "eyeRef")]

\* Date.now() - lastMouseMoveRef.current when the next gaze timer fires.
IdleAtExpiry ==
    IF mouseIdle + timers.eye[1].rem >= IdleWindow
    THEN IdleWindow ELSE mouseIdle + timers.eye[1].rem

\* A test of the recency window that is one ms short.
RecentShort(idle) == idle < IdleWindow - 1

\* mouseIdle < 2000 (line 119)
Recent(idle) == idle < IdleWindow

\* The tracking timer expires (lines 117-128).
TrackExpire ==
    /\ UNCHANGED exitBlinkKept
    /\ Starts("cycle")
    /\ Fires("eye", "trackExpire")
    /\ mouseIdle' = IdleAtExpiry
    /\ IF Recent(mouseIdle')
       THEN \E trackDur \in LoopDelays(5000, 3000) : Cycle(Rest("eye"), trackDur)
       ELSE \E roll \in Rolls, wanderDur \in Delays(800, 1200) :
              /\ eyeMode' = "wander"
              /\ randomPupil' = {Away[Floor(roll, Len(Away)) + 1]}
              /\ timers' = [timers EXCEPT !.eye =
                              SetTimeoutRef(Rest("eye"), "cycle", wanderDur, "eyeRef")]
    /\ UNCHANGED <<pupilOffset, isBlinking, isCrossEyed, crossEyedY, isHovered,
                   wiggleGroups, flashRow, mount, enterAlone>>

\* The wander timer expires: cycle() again.
WanderExpire ==
    /\ UNCHANGED exitBlinkKept
    /\ Starts("cycle")
    /\ Fires("eye", "cycle")
    /\ mouseIdle' = IdleAtExpiry
    /\ \E trackDur \in LoopDelays(5000, 3000) : Cycle(Rest("eye"), trackDur)
    /\ UNCHANGED <<pupilOffset, isBlinking, isCrossEyed, crossEyedY, isHovered,
                   wiggleGroups, flashRow, mount, enterAlone>>

----------------------------------------------------------------------------
\* Auto blink (lines 135-160).

\* schedule() of the blink effect.
BlinkSchedule(q, delay) == SetTimeoutRef(q, "blinkStart", delay, "blinkRef")

\* A blink callback that also calls schedule() itself, as the flash and idle
\* callbacks do.
BlinkStartTimersEager(q, roll) ==
    SetTimeoutRef(
      IF roll < 25 THEN SetTimeout(q, "blinkOpen1", 80, {})
      ELSE IF roll < 40 THEN SetTimeout(q, "blinkEnd", 250, {})
      ELSE SetTimeout(q, "blinkEnd", 100, {}),
      "blinkStart", 2000, "blinkRef")

\* The timers of the blink chain when the blink callback returns.
BlinkStartTimers(q, roll) ==
    IF roll < 25 THEN SetTimeout(q, "blinkOpen1", 80, {})
    ELSE IF roll < 40 THEN SetTimeout(q, "blinkEnd", 250, {})
    ELSE SetTimeout(q, "blinkEnd", 100, {})

\* The inter-blink delay expires: close the eyes, arm the episode.
BlinkStart ==
    /\ UNCHANGED exitBlinkKept
    /\ Fires("blink", "blinkStart")
    /\ Starts("blink")
    /\ isBlinking' = TRUE
    /\ \E roll \in BandRolls :
         timers' = [timers EXCEPT !.blink = BlinkStartTimers(Rest("blink"), roll)]
    /\ UNCHANGED <<mouseIdle, pupilOffset, isCrossEyed, crossEyedY, isHovered,
                   randomPupil, wiggleGroups, flashRow, eyeMode, mount, enterAlone>>

\* Double blink, first opening (lines 142-148).
BlinkOpen1 ==
    /\ exitBlinkKept' = FALSE
    /\ Fires("blink", "blinkOpen1")
    /\ isBlinking' = FALSE
    /\ timers' = [timers EXCEPT !.blink = SetTimeout(Rest("blink"), "blinkClose2", 150, {})]
    /\ UNCHANGED <<mouseIdle, pupilOffset, isCrossEyed, crossEyedY, isHovered,
                   randomPupil, wiggleGroups, flashRow, eyeMode, mount, history,
                   enterAlone>>

\* Double blink, second closing (lines 144-147).
BlinkClose2 ==
    /\ UNCHANGED exitBlinkKept
    /\ Fires("blink", "blinkClose2")
    /\ isBlinking' = TRUE
    /\ timers' = [timers EXCEPT !.blink = SetTimeout(Rest("blink"), "blinkEnd", 80, {})]
    /\ UNCHANGED <<mouseIdle, pupilOffset, isCrossEyed, crossEyedY, isHovered,
                   randomPupil, wiggleGroups, flashRow, eyeMode, mount, history,
                   enterAlone>>

\* The final opening of an episode: open the eyes and schedule the next one.
BlinkEnd ==
    /\ exitBlinkKept' = FALSE
    /\ Fires("blink", "blinkEnd")
    /\ isBlinking' = FALSE
    /\ \E delay \in LoopDelays(2000, 6000) :
         timers' = [timers EXCEPT !.blink = BlinkSchedule(Rest("blink"), delay)]
    /\ UNCHANGED <<mouseIdle, pupilOffset, isCrossEyed, crossEyedY, isHovered,
                   randomPupil, wiggleGroups, flashRow, eyeMode, mount, history,
                   enterAlone>>

----------------------------------------------------------------------------
\* Flash sweep (lines 163-177).

\* A sweep that runs from row 6 up to row 1.
RECURSIVE FlashRowsUpward(_, _)
FlashRowsUpward(q, row) ==
    IF row > 6 THEN q
    ELSE FlashRowsUpward(SetTimeout(q, "flashRow", (6 - row) * 70, {row}), row + 1)

\* rows.forEach((row, i) => setTimeout(() => setFlashRow(row), i * 70))
RECURSIVE FlashRows(_, _)
FlashRows(q, row) ==
    IF row > 6 THEN q
    ELSE FlashRows(SetTimeout(q, "flashRow", (row - 1) * 70, {row}), row + 1)

\* The sweep delay expires: arm the six rows and the clear, schedule again.
FlashStart ==
    /\ UNCHANGED exitBlinkKept
    /\ Fires("flash", "flashStart")
    /\ Starts("flash")
    /\ \E delay \in LoopDelays(15000, 5000) :
         timers' = [timers EXCEPT !.flash =
                      SetTimeoutRef(
                        SetTimeout(FlashRows(Rest("flash"), 1), "flashClear", 6 * 70, {}),
                        "flashStart", delay, "flashRef")]
    /\ UNCHANGED <<controller, mouseIdle, mount, enterAlone>>

\* setFlashRow(row)
FlashRowStep ==
    /\ UNCHANGED exitBlinkKept
    /\ Fires("flash", "flashRow")
    /\ flashRow' = timers.flash[1].arg
    /\ timers' = [timers EXCEPT !.flash = Rest("flash")]
    /\ UNCHANGED <<mouseIdle, pupilOffset, isBlinking, isCrossEyed, crossEyedY,
                   isHovered, randomPupil, wiggleGroups, eyeMode, mount, history,
                   enterAlone>>

\* A clear of the highlight that also puts the limbs to rest.
FlashClearResting ==
    /\ UNCHANGED exitBlinkKept
    /\ Fires("flash", "flashClear")
    /\ flashRow' = {}
    /\ wiggleGroups' = {}
    /\ timers' = [timers EXCEPT !.flash = Rest("flash")]
    /\ UNCHANGED <<mouseIdle, pupilOffset, isBlinking, isCrossEyed, crossEyedY,
                   isHovered, randomPupil, eyeMode, mount, history, enterAlone>>

\* setFlashRow(null)
FlashClear ==
    /\ UNCHANGED exitBlinkKept
    /\ Fires("flash", "flashClear")
    /\ flashRow' = {}
    /\ timers' = [timers EXCEPT !.flash = Rest("flash")]
    /\ UNCHANGED <<mouseIdle, pupilOffset, isBlinking, isCrossEyed, crossEyedY,
                   isHovered, randomPupil, wiggleGroups, eyeMode, mount, history,
                   enterAlone>>

----------------------------------------------------------------------------
\* Random idle (lines 180-216).

\* schedule() of the idle effect.
IdleSchedule(q, delay) == SetTimeoutRef(q, "idleStart", delay, "idleRef")

\* [0, 1, 2, 3].forEach((gi, i) => setTimeout(..., i * 150))
RECURSIVE WaveSteps(_, _)
WaveSteps(q, gi) ==
    IF gi > 3 THEN q
    ELSE WaveSteps(SetTimeout(q, "waveStep", gi * 150, {gi}), gi + 1)

\* The sets the wiggle loop can end with: count distinct limbs, each a draw
\* of Math.floor(Math.random() * 4).
WiggleDraws(count) ==
    {s \in SUBSET {Floor(r, 4) : r \in Rolls} : Cardinality(s) = count}

\* The idle delay expires and the draw is roll: one of wiggle, wave,
\* cross-eyed, nothing.
IdleStartRoll(roll) ==
    /\ UNCHANGED exitBlinkKept
    /\ Fires("idle", "idleStart")
    /\ Starts("idle")
    /\ \E delay \in LoopDelays(5000, 3000) :
         IF roll < 40 THEN
            \E roll2 \in Rolls, hold \in Delays(250, 200) :
              \E indices \in WiggleDraws(IF roll2 < 40 THEN 2 ELSE 1) :
                /\ wiggleGroups' = indices
                /\ timers' = [timers EXCEPT !.idle =
                                IdleSchedule(
                                  SetTimeout(Rest("idle"), "wiggleClear", hold, {}),
                                  delay)]
                /\ enterAlone' = FALSE
                /\ UNCHANGED <<isCrossEyed, crossEyedY>>
         ELSE IF roll < 60 THEN
            /\ timers' = [timers EXCEPT !.idle =
                            IdleSchedule(WaveSteps(Rest("idle"), 0), delay)]
            /\ UNCHANGED <<wiggleGroups, isCrossEyed, crossEyedY, enterAlone>>
         ELSE IF roll < 80 THEN
            \E roll2 \in Rolls, dur \in Delays(1500, 500) :
              /\ isCrossEyed' = TRUE
              /\ crossEyedY' = (IF roll2 < 50 THEN 3 ELSE 4)
              /\ timers' = [timers EXCEPT !.idle =
                              IdleSchedule(
                                SetTimeout(Rest("idle"), "crossBlink", dur, {}),
                                delay)]
              /\ UNCHANGED <<wiggleGroups, enterAlone>>
         ELSE
            /\ timers' = [timers EXCEPT !.idle = IdleSchedule(Rest("idle"), delay)]
            /\ UNCHANGED <<wiggleGroups, isCrossEyed, crossEyedY, enterAlone>>
    /\ UNCHANGED <<mouseIdle, pupilOffset, isBlinking, isHovered, randomPupil,
                   flashRow, eyeMode, mount>>

IdleStart == \E roll \in BandRolls : IdleStartRoll(roll)

\* setWiggleGroups(new Set()) of the wiggle and of a wave step.
WiggleClear ==
    /\ UNCHANGED exitBlinkKept
    /\ Fires("idle", "wiggleClear")
    /\ wiggleGroups' = {}
    /\ enterAlone' = FALSE
    /\ timers' = [timers EXCEPT !.idle = Rest("idle")]
    /\ UNCHANGED <<mouseIdle, pupilOffset, isBlinking, isCrossEyed, crossEyedY,
                   isHovered, randomPupil, flashRow, eyeMode, mount, history>>

\* A wave step that arms no clear.
WaveStepNoClear ==
    /\ UNCHANGED exitBlinkKept
    /\ Fires("idle", "waveStep")
    /\ wiggleGroups' = timers.idle[1].arg
    /\ enterAlone' = FALSE
    /\ timers' = [timers EXCEPT !.idle = Rest("idle")]
    /\ UNCHANGED <<mouseIdle, pupilOffset, isBlinking, isCrossEyed, crossEyedY,
                   isHovered, randomPupil, flashRow, eyeMode, mount, history>>

\* One limb of the idle wave (lines 196-199).
WaveStep ==
    /\ UNCHANGED exitBlinkKept
    /\ Fires("idle", "waveStep")
    /\ wiggleGroups' = timers.idle[1].arg
    /\ enterAlone' = FALSE
    /\ timers' = [timers EXCEPT !.idle = SetTimeout(Rest("idle"), "wiggleClear", 200, {})]
    /\ UNCHANGED <<mouseIdle, pupilOffset, isBlinking, isCrossEyed, crossEyedY,
                   isHovered, randomPupil, flashRow, eyeMode, mount, history>>

\* A cross-eyed hold that ends without closing the eyes.
CrossBlinkOpen ==
    /\ exitBlinkKept' = TRUE
    /\ Fires("idle", "crossBlink")
    /\ timers' = [timers EXCEPT !.idle = SetTimeout(Rest("idle"), "crossExit", 100, {})]
    /\ UNCHANGED <<mouseIdle, controller, mount, history, enterAlone>>

\* The cross-eyed hold ends: blink (lines 205-208).
CrossBlink ==
    /\ exitBlinkKept' = TRUE
    /\ Fires("idle", "crossBlink")
    /\ isBlinking' = TRUE
    /\ timers' = [timers EXCEPT !.idle = SetTimeout(Rest("idle"), "crossExit", 100, {})]
    /\ UNCHANGED <<mouseIdle, pupilOffset, isCrossEyed, crossEyedY, isHovered,
                   randomPupil, wiggleGroups, flashRow, eyeMode, mount, history,
                   enterAlone>>

\* A cross-eyed exit that leaves the blink flag alone.
CrossExitOpenLater ==
    /\ exitBlinkKept' = FALSE
    /\ Fires("idle", "crossExit")
    /\ isCrossEyed' = FALSE
    /\ timers' = [timers EXCEPT !.idle = Rest("idle")]
    /\ UNCHANGED <<mouseIdle, pupilOffset, isBlinking, crossEyedY, isHovered,
                   randomPupil, wiggleGroups, flashRow, eyeMode, mount, history,
                   enterAlone>>

\* The cross-eyed exit (line 207).
CrossExit ==
    /\ exitBlinkKept' = FALSE
    /\ Fires("idle", "crossExit")
    /\ isCrossEyed' = FALSE
    /\ isBlinking' = FALSE
    /\ timers' = [timers EXCEPT !.idle = Rest("idle")]
    /\ UNCHANGED <<mouseIdle, pupilOffset, crossEyedY, isHovered, randomPupil,
                   wiggleGroups, flashRow, eyeMode, mount, history,
                   enterAlone>>

----------------------------------------------------------------------------
\* Pointer events (lines 88-109, 218-231).

\* The window's mousemove handler, for a pointer at e, gap ms after the gaze
\* chain's last event.
PointerMoveAt(gap, e) ==
    /\ UNCHANGED exitBlinkKept
    /\ listening
    /\ Starts("mousemove")
    /\ timers.eye # <<>> => gap <= timers.eye[1].rem
    /\ timers' = [timers EXCEPT !.eye = Elapse(timers.eye, gap)]
    /\ mouseIdle' = 0
    /\ IF HandlerEyeMode = "wander"
       THEN eyeMode' = "track" /\ randomPupil' = {}
       ELSE UNCHANGED <<eyeMode, randomPupil>>
    /\ IF ~svgRef
       THEN UNCHANGED pupilOffset
       ELSE pupilOffset' = TrackedTarget(e.x, e.y)
    /\ UNCHANGED <<isBlinking, isCrossEyed, crossEyedY, isHovered, wiggleGroups,
                   flashRow, mount, enterAlone>>

PointerMove == \E gap \in MoveGaps, e \in Pointers : PointerMoveAt(gap, e)

\* The pointer-enter wave with its two middle steps exchanged.
EnterTimersSwapped(q) ==
    SetTimeout(
      SetTimeout(
        SetTimeout(
          SetTimeout(
            SetTimeout(q, "enterBlinkEnd", 120, {}),
            "enterWiggle", 50, {1, 2}),
          "enterWiggle", 150, {0, 3}),
        "enterWiggle", 300, {0, 1, 2, 3}),
      "enterWiggle", 450, {})

\* A pointer-enter that closes the eyes and arms no timer to open them.
EnterTimersNoBlinkEnd(q) ==
    SetTimeout(
      SetTimeout(
        SetTimeout(
          SetTimeout(q, "enterWiggle", 50, {1, 2}),
          "enterWiggle", 150, {0, 1, 2, 3}),
        "enterWiggle", 300, {0, 3}),
      "enterWiggle", 450, {})

\* The timers handleMouseEnter arms (lines 221-226).
EnterTimers(q) ==
    SetTimeout(
      SetTimeout(
        SetTimeout(
          SetTimeout(
            SetTimeout(q, "enterBlinkEnd", 120, {}),
            "enterWiggle", 50, {1, 2}),
          "enterWiggle", 150, {0, 1, 2, 3}),
        "enterWiggle", 300, {0, 3}),
      "enterWiggle", 450, {})

handleMouseEnter ==
    /\ UNCHANGED exitBlinkKept
    /\ svgRef
    /\ Starts("mouseenter")
    /\ isHovered' = TRUE
    /\ isBlinking' = TRUE
    /\ enterAlone' = (timers.enter = <<>>)
    /\ timers' = [timers EXCEPT !.enter = EnterTimers(timers.enter)]
    /\ UNCHANGED <<mouseIdle, pupilOffset, isCrossEyed, crossEyedY, randomPupil,
                   wiggleGroups, flashRow, eyeMode, mount>>

\* setTimeout(() => setIsBlinking(false), 120)
EnterBlinkEnd ==
    /\ exitBlinkKept' = FALSE
    /\ Fires("enter", "enterBlinkEnd")
    /\ isBlinking' = FALSE
    /\ timers' = [timers EXCEPT !.enter = Rest("enter")]
    /\ UNCHANGED <<mouseIdle, pupilOffset, isCrossEyed, crossEyedY, isHovered,
                   randomPupil, wiggleGroups, flashRow, eyeMode, mount, history,
                   enterAlone>>

\* One step of the pointer-enter wave (lines 223-226).
EnterWiggle ==
    /\ UNCHANGED exitBlinkKept
    /\ Fires("enter", "enterWiggle")
    /\ wiggleGroups' = timers.enter[1].arg
    /\ timers' = [timers EXCEPT !.enter = Rest("enter")]
    /\ UNCHANGED <<mouseIdle, pupilOffset, isBlinking, isCrossEyed, crossEyedY,
                   isHovered, randomPupil, flashRow, eyeMode, mount, history,
                   enterAlone>>

\* A pointer-leave that also puts the limbs to rest.
handleMouseLeaveResting ==
    /\ UNCHANGED exitBlinkKept
    /\ Starts("mouseleave")
    /\ svgRef
    /\ isHovered' = FALSE
    /\ wiggleGroups' = {}
    /\ UNCHANGED <<timers, mouseIdle, pupilOffset, isBlinking, isCrossEyed,
                   crossEyedY, randomPupil, flashRow, eyeMode, mount,
                   enterAlone>>

handleMouseLeave ==
    /\ UNCHANGED exitBlinkKept
    /\ Starts("mouseleave")
    /\ svgRef
    /\ isHovered' = FALSE
    /\ UNCHANGED <<timers, mouseIdle, pupilOffset, isBlinking, isCrossEyed,
                   crossEyedY, randomPupil, wiggleGroups, flashRow, eyeMode,
                   mount, enterAlone>>

----------------------------------------------------------------------------
\* Unmount.  The svg element is removed and svgRef.current becomes null when
\* the removal is committed; the effect cleanups run after that.

Detach ==
    /\ UNCHANGED exitBlinkKept
    /\ svgRef
    /\ svgRef' = FALSE
    /\ UNCHANGED <<timers, mouseIdle, controller, listening, history, enterAlone>>

\* The cleanups of the five effects: the mousemove listener is removed and
\* the timer each ref holds is cleared.
Cleanup ==
    /\ UNCHANGED exitBlinkKept
    /\ ~svgRef
    /\ listening
    /\ listening' = FALSE
    /\ timers' = [eye   |-> ClearTimeout(timers.eye, "eyeRef"),
                  blink |-> ClearTimeout(timers.blink, "blinkRef"),
                  flash |-> ClearTimeout(timers.flash, "flashRef"),
                  idle  |-> ClearTimeout(timers.idle, "idleRef"),
                  enter |-> timers.enter]
    /\ UNCHANGED <<mouseIdle, controller, svgRef, history, enterAlone>>

----------------------------------------------------------------------------
\* Mount: the default cells, then the effects in order (gaze cycle, blink,
\* flash, idle), each arming its first timer.

Init ==
    /\ exitBlinkKept = FALSE
    /\ mouseIdle = IdleWindow
    /\ pupilOffset = [x |-> 0, y |-> 0]
    /\ isBlinking = FALSE
    /\ isCrossEyed = FALSE
    /\ crossEyedY = 4
    /\ isHovered = FALSE
    /\ randomPupil = {}
    /\ wiggleGroups = {}
    /\ flashRow = {}
    /\ eyeMode = "track"
    /\ svgRef = TRUE
    /\ listening = TRUE
    /\ starts = 0
    /\ event = "mount"
    /\ enterAlone = FALSE
    /\ \E trackDur \in LoopDelays(5000, 3000), blinkDelay \in LoopDelays(2000, 6000),
          flashDelay \in LoopDelays(15000, 5000), idleDelay \in LoopDelays(5000, 3000) :
         timers = [eye   |-> SetTimeoutRef(<<>>, "trackExpire", trackDur, "eyeRef"),
                   blink |-> SetTimeoutRef(<<>>, "blinkStart", blinkDelay, "blinkRef"),
                   flash |-> SetTimeoutRef(<<>>, "flashStart", flashDelay, "flashRef"),
                   idle  |-> SetTimeoutRef(<<>>, "idleStart", idleDelay, "idleRef"),
                   enter |-> <<>>]

Next ==
    \/ TrackExpire
    \/ WanderExpire
    \/ BlinkStart
    \/ BlinkOpen1
    \/ BlinkClose2
    \/ BlinkEnd
    \/ FlashStart
    \/ FlashRowStep
    \/ FlashClear
    \/ IdleStart
    \/ WiggleClear
    \/ WaveStep
    \/ CrossBlink
    \/ CrossExit
    \/ PointerMove
    \/ handleMouseEnter
    \/ EnterBlinkEnd
    \/ EnterWiggle
    \/ handleMouseLeave
    \/ Detach
    \/ Cleanup

Spec == Init /\ [][Next]_vars

\* A callback armed by another callback or by handleMouseEnter runs: its
\* timer is due at a fixed delay and the event loop runs every due timer.
TimerFires ==
    \/ BlinkOpen1
    \/ BlinkClose2
    \/ BlinkEnd
    \/ FlashRowStep
    \/ FlashClear
    \/ WiggleClear
    \/ WaveStep
    \/ CrossBlink
    \/ CrossExit
    \/ EnterBlinkEnd
    \/ EnterWiggle

\* The component with time passing: pending callbacks do fire.
LiveSpec == Spec /\ WF_vars(TimerFires)

----------------------------------------------------------------------------
\* Properties.

\* The effect cleanups have run.
Unmounted == ~svgRef /\ ~listening

\* C1 (teardown safety): once the creature is unmounted, no step changes the
\* controller state (the nine cells).
C1_NoWriteAfterUnmount == [][Unmounted => controller' = controller]_vars

\* The per-axis sign of the tracked target.
TrackedDir == [x |-> Sign(pupilOffset.x), y |-> Sign(pupilOffset.y)]

\* C2: a step from tracking to wandering picks one of the eight directions,
\* and not the direction of the tracked target held at that moment.
C2_WanderLooksAway ==
    [][(eyeMode = "track" /\ eyeMode' = "wander") =>
         /\ \E i \in 1..8 : randomPupil' = {LOOK_DIRS[i]}
         /\ randomPupil' # {TrackedDir}]_vars

\* C3: the blink chain never holds more than one pending timer, and holds
\* exactly one while the effects are live: the delay, or one step of one
\* episode.
C3_OneBlinkTimer ==
    /\ Len(timers.blink) <= 1
    /\ listening => Len(timers.blink) = 1

\* A double blink is between its second closing and its final opening.
C3_MidDoubleBlink ==
    /\ listening
    /\ Len(timers.blink) = 1
    /\ timers.blink[1].cb = "blinkEnd"
    /\ timers.blink[1].rem = 80

\* The last spontaneous event of the step is ev.
Delivered(ev) == starts' # starts /\ event' = ev

\* The pending timers of chain c with callback cb.
Pending(c, cb) == {i \in 1..Len(timers[c]) : timers[c][i].cb = cb}

\* The step runs the callback cb of chain c.
Fired(c, cb) ==
    Fires(c, cb) /\ Cardinality(Pending(c, cb)') < Cardinality(Pending(c, cb))

\* Time since the latest pointer-enter, while its wave is pending.
EnterElapsed == 450 - timers.enter[Len(timers.enter)].rem

\* The wiggle set of the pointer-enter wave e ms after the event, e >= 50.
EnterWave(e) ==
    IF e < 150 THEN {1, 2} ELSE IF e < 300 THEN {0, 1, 2, 3} ELSE {0, 3}

\* The hover and blink flags on pointer-enter.
EnterFlags == Delivered("mouseenter") => isHovered' /\ isBlinking'

\* The steps of the pointer-enter timeline: the blink ends at +120, the
\* wiggle set follows the wave from +50 on, and is empty when the last timer
\* has fired.
EnterTimeline ==
    /\ Fired("enter", "enterBlinkEnd") => ~isBlinking' /\ EnterElapsed' = 120
    /\ (timers.enter' # <<>> /\ EnterElapsed' >= 50)
          => wiggleGroups' = EnterWave(EnterElapsed')
    /\ (timers.enter # <<>> /\ timers.enter' = <<>>) => wiggleGroups' = {}

C5_CrossEyedEpisode ==
    [][/\ \A roll \in 60..79 :
            IdleStartRoll(roll) =>
              /\ isCrossEyed'
              /\ crossEyedY' \in {3, 4}
              /\ \E i \in 1..Len(timers.idle') :
                    /\ timers.idle'[i].cb = "crossBlink"
                    /\ timers.idle'[i].rem \in 1500..1999
       /\ Fired("idle", "crossBlink") =>
              /\ isCrossEyed'
              /\ isBlinking'
              /\ timers.idle'[1].cb = "crossExit"
              /\ timers.idle'[1].rem = 100
       /\ (isCrossEyed /\ ~isCrossEyed') =>
              Fired("idle", "crossExit") /\ ~isBlinking']_vars

\* The cross-eyed blink has closed the eyes and the exit is pending.
C5_CrossEyedBlink ==
    /\ isCrossEyed
    /\ isBlinking
    /\ crossEyedY \in {3, 4}
    /\ Fires("idle", "crossExit")

\* The tracked target the dead-zone rule gives for a displacement d.
DeadZone(d) == IF d > 30 THEN 1 ELSE IF d < -30 THEN -1 ELSE 0

\* C6: a pointer-move at displacement (dx, dy) from the reference point sets
\* the tracked target to 0 on an axis with |d| <= 30 and to the sign of d
\* otherwise; (100, -50) gives (1, -1) and the reference point gives (0, 0).
C6_TrackedTarget ==
    [][\A gap \in MoveGaps, e \in Pointers :
         (svgRef /\ PointerMoveAt(gap, e)) =>
            /\ pupilOffset' = [x |-> DeadZone(e.x - RefX), y |-> DeadZone(e.y - RefY)]
            /\ (e.x - RefX = 100 /\ e.y - RefY = -50) => pupilOffset' = [x |-> 1, y |-> -1]
            /\ (Abs(e.x - RefX) <= 30 /\ Abs(e.y - RefY) <= 30)
                  => pupilOffset' = [x |-> 0, y |-> 0]]_vars

\* A pointer-move has set the tracked target to (1, -1).
C6_UpRight ==
    /\ event = "mousemove"
    /\ svgRef
    /\ pupilOffset = [x |-> 1, y |-> -1]

\* C7: no step goes from tracking to wandering less than 2000 ms after the
\* last pointer-move; a tracking timer that expires within that window
\* leaves the mode at tracking and arms a new tracking timer of 5000-8000 ms.
C7_RecentMoveDefersWander ==
    [][/\ (eyeMode = "track" /\ eyeMode' = "wander") => mouseIdle' >= 2000
       /\ (Fires("eye", "trackExpire") /\ Delivered("cycle")
             /\ mouseIdle + timers.eye[1].rem < 2000) =>
              /\ eyeMode' = "track"
              /\ Len(timers.eye') = 1
              /\ timers.eye'[1].cb = "trackExpire"
              /\ timers.eye'[1].ref = "eyeRef"
              /\ timers.eye'[1].rem \in 5000..7999]_vars

\* A tracking timer expired 1999 ms after a pointer-move and tracking
\* restarted.
C7_Deferred ==
    /\ event = "cycle"
    /\ eyeMode = "track"
    /\ mouseIdle = 1999
    /\ Fires("eye", "trackExpire")

\* C8: a pointer-move while wandering sets the mode to tracking and clears
\* the wander target, so the effective gaze is the tracked target, and the
\* wander timer stays pending; when that timer fires it starts a tracking
\* phase and changes neither target.
C8_MoveEndsWander ==
    [][/\ (Delivered("mousemove") /\ eyeMode = "wander") =>
              /\ eyeMode' = "track"
              /\ randomPupil' = {}
              /\ effectivePupil' = pupilOffset'
              /\ timers.eye' # <<>>
              /\ timers.eye'[1].cb = "cycle"
       /\ (Delivered("cycle") /\ Fires("eye", "cycle") /\ eyeMode = "track") =>
              /\ eyeMode' = "track"
              /\ UNCHANGED <<randomPupil, pupilOffset>>
              /\ Len(timers.eye') = 1
              /\ timers.eye'[1].cb = "trackExpire"]_vars

\* A pointer-move has ended a wander phase whose timer is still pending.
C8_WanderTimerPending ==
    /\ event = "mousemove"
    /\ eyeMode = "track"
    /\ randomPupil = {}
    /\ Fires("eye", "cycle")

\* C9: a pointer-move delivered while svgRef.current is null leaves the
\* effective gaze target as it was.
C9_MoveWithoutGeometry ==
    [][(Delivered("mousemove") /\ ~svgRef) => effectivePupil' = effectivePupil]_vars

\* C10: a pointer-leave sets the hover flag to false and changes no other
\* cell and no timer; with the hover flag already false it changes nothing.
C10_LeaveOnlyHover ==
    [][Delivered("mouseleave") =>
         /\ ~isHovered'
         /\ UNCHANGED <<timers, mouseIdle, pupilOffset, isBlinking, isCrossEyed,
                        crossEyedY, randomPupil, wiggleGroups, flashRow, eyeMode,
                        mount>>
         /\ ~isHovered => UNCHANGED <<timers, mouseIdle, controller, mount>>]_vars

\* The pointer left during the first step of a pointer-enter wave.
C10_LeftMidWave ==
    /\ event = "mouseleave"
    /\ ~isHovered
    /\ isBlinking
    /\ wiggleGroups = {1, 2}
    /\ timers.enter # <<>>

\* The gaze the pose shows: the wander target while wandering, else the
\* tracked target.
Gaze ==
    IF eyeMode = "wander" /\ randomPupil # {}
    THEN CHOOSE g \in randomPupil : TRUE ELSE pupilOffset

\* The 0/1 offset of one gaze component.
Offset(v) == IF v > 0 THEN 1 ELSE 0

\* C11: the eyes are closed and no pupil is drawn iff the blink flag is true;
\* otherwise a cross-eyed creature has its pupils at columns 5 and 7 on row
\* crossEyedY; otherwise the pupils are at (4,3) and (7,3) moved by 1 on each
\* axis whose gaze component is positive.
C11_PosePrecedence ==
    /\ eyesClosed <=> isBlinking
    /\ isBlinking <=> Pupils = <<>>
    /\ (~isBlinking /\ isCrossEyed) =>
          Pupils = << [x |-> 5, y |-> crossEyedY], [x |-> 7, y |-> crossEyedY] >>
    /\ (~isBlinking /\ ~isCrossEyed) =>
          Pupils = << [x |-> 4 + Offset(Gaze.x), y |-> 3 + Offset(Gaze.y)],
                      [x |-> 7 + Offset(Gaze.x), y |-> 3 + Offset(Gaze.y)] >>

\* A cross-eyed creature with open eyes whose gaze points down and right.
C11_CrossEyedOverGaze ==
    /\ ~isBlinking
    /\ isCrossEyed
    /\ Gaze.x > 0
    /\ Gaze.y > 0

\* Time since the sweep started, while its clear is pending.
FlashElapsed ==
    420 - timers.flash[CHOOSE i \in Pending("flash", "flashClear") : TRUE].rem

\* C12: the highlighted row only changes from none to 1, from r to r+1 and
\* from 6 to none; row r is set r-1 steps of 70 ms after the sweep started
\* and the row is cleared by the timer armed for 420 ms, after row 6.
C12_SweepOrder ==
    [][/\ flashRow' # flashRow =>
            \/ flashRow = {} /\ flashRow' = {1}
            \/ \E r \in 1..5 : flashRow = {r} /\ flashRow' = {r + 1}
            \/ flashRow = {6} /\ flashRow' = {}
       /\ Fired("flash", "flashRow") =>
            /\ Cardinality(Pending("flash", "flashClear")') = 1
            /\ FlashElapsed' % 70 = 0
            /\ flashRow' = {FlashElapsed' \div 70 + 1}
       /\ Fired("flash", "flashClear") =>
            /\ flashRow = {6}
            /\ flashRow' = {}
            /\ Pending("flash", "flashRow")' = {}]_vars

\* The sweep has reached row 6 and its clear is the next flash timer.
C12_LastRow ==
    /\ flashRow = {6}
    /\ Fires("flash", "flashClear")
    /\ timers.flash[1].rem = 70

\* The step runs a callback of chain c or arms a timer of it.
Ran(c) == timers[c]' # timers[c] /\ listening' = listening

\* C13: a gaze callback or a pointer-move changes only the gaze mode and the
\* two targets; a blink callback only the blink flag; a highlight callback
\* only the highlighted row; an idle callback only the wiggle set, the
\* cross-eye flag and height and the blink flag; a pointer-enter callback
\* only the hover flag, the blink flag and the wiggle set.
C13_DisjointWrites ==
    [][/\ (Ran("eye") \/ Delivered("mousemove")) =>
            UNCHANGED <<isBlinking, isCrossEyed, crossEyedY, isHovered,
                        wiggleGroups, flashRow>>
       /\ Ran("blink") =>
            UNCHANGED <<pupilOffset, isCrossEyed, crossEyedY, isHovered,
                        randomPupil, wiggleGroups, flashRow, eyeMode>>
       /\ Ran("flash") =>
            UNCHANGED <<pupilOffset, isBlinking, isCrossEyed, crossEyedY,
                        isHovered, randomPupil, wiggleGroups, eyeMode>>
       /\ Ran("idle") =>
            UNCHANGED <<pupilOffset, isHovered, randomPupil, flashRow, eyeMode>>
       /\ Ran("enter") =>
            UNCHANGED <<pupilOffset, isCrossEyed, crossEyedY, randomPupil,
                        flashRow, eyeMode>>]_vars

\* A cross-eyed episode, a pointer-enter wave and a wander phase at the same
\* time.
C13_AllMidEpisode ==
    /\ isCrossEyed
    /\ wiggleGroups # {}
    /\ eyeMode = "wander"
    /\ timers.enter # <<>>

\* C14: the lift and the glow of the pose depend on the hover flag alone, and
\* a step that changes the hover flag changes both of them.
C14_HoverDrivesLiftAndGlow ==
    [][/\ isHovered' = isHovered =>
            svgTransform' = svgTransform /\ svgFilter' = svgFilter
       /\ isHovered' # isHovered =>
            svgTransform' # svgTransform /\ svgFilter' # svgFilter]_vars

\* The number of pending timers.
PendingTimers ==
    Len(timers.eye) + Len(timers.blink) + Len(timers.flash)
      + Len(timers.idle) + Len(timers.enter)

\* C15 (teardown quiescence): after unmount every callback that fires leaves
\* one pending timer less, none arms a new one, and no self-rescheduling
\* loop is armed again.
C15_NoTimerArmedAfterUnmount ==
    [][Unmounted =>
         /\ timers' # timers => PendingTimers' < PendingTimers
         /\ \A c \in {"eye", "blink", "flash", "idle"} :
              \A i \in 1..Len(timers[c]') : timers[c]'[i].ref = "none"]_vars

IdleAlone == event = "idle" /\ event' = "idle" /\ timers.enter = <<>>

\* The first idle timer is the youngest pending clear of the wiggle set, the
\* one armed when the present limb was activated.
OwnClearFires ==
    /\ Fired("idle", "wiggleClear")
    /\ \A i \in Pending("idle", "wiggleClear") :
         timers.idle[i].rem <= timers.idle[1].rem

\* An idle wave is under way: more than one of its timers is pending (an idle
\* wiggle has only its one clear).
InWave ==
    Cardinality(Pending("idle", "waveStep"))
      + Cardinality(Pending("idle", "wiggleClear")) >= 2

\* C17: in an idle wave with no other writer of the wiggle set, limb g is
\* activated 150 * g ms after the draw, in the order 0, 1, 2, 3, and a limb
\* leaves the wiggle set only when the clear armed at its activation fires,
\* 200 ms later.
C17_WaveLimbsHeld ==
    [][IdleAlone =>
         /\ Fired("idle", "waveStep") =>
              \E g \in 0..3 :
                /\ wiggleGroups' = {g}
                /\ Cardinality(Pending("idle", "waveStep")') = 3 - g
                /\ timers.idle[1].rem = (IF g = 0 THEN 0 ELSE 150)
         /\ (InWave /\ wiggleGroups # {} /\ wiggleGroups' # wiggleGroups) =>
              OwnClearFires /\ wiggleGroups' = {}]_vars

\* A timer whose callback sets the blink flag to false is pending.
OpenerPending ==
    \E c \in {"blink", "idle", "enter"} :
      \E i \in 1..Len(timers[c]) :
        timers[c][i].cb \in {"blinkOpen1", "blinkEnd", "crossExit", "enterBlinkEnd"}

\* C18: whenever the blink flag is true a timer that will set it to false is
\* pending, and the blink flag always returns to false.
C18_EyesReopen ==
    /\ [](isBlinking => OpenerPending)
    /\ isBlinking ~> ~isBlinking

\* The eyes are closed while an autonomous double blink and a pointer-enter
\* blink are both under way.
C18_TwoBlinksPending ==
    /\ isBlinking
    /\ Fires("blink", "blinkOpen1")
    /\ Pending("enter", "enterBlinkEnd") # {}

\* C19: the wander target is set exactly when the mode is wandering: a step
\* to tracking clears it, a step to wandering sets it, and the callback of
\* the wander timer and a pointer-move leave the mode at tracking with no
\* wander target.
C19_WanderTargetIffWandering ==
    /\ [](randomPupil # {} <=> eyeMode = "wander")
    /\ [][/\ (eyeMode # "track" /\ eyeMode' = "track") => randomPupil' = {}
          /\ (eyeMode # "wander" /\ eyeMode' = "wander") =>
                \E i \in 1..Len(LOOK_DIRS) : randomPupil' = {LOOK_DIRS[i]}
          /\ ((Delivered("cycle") /\ Fires("eye", "cycle")) \/ Delivered("mousemove"))
                => (eyeMode' = "track" /\ randomPupil' = {})]_vars

\* The wander timer has fired with no pointer-move since the mount: the
\* gaze is back to tracking.
C19_BackToTracking ==
    /\ event = "cycle"
    /\ starts = 2
    /\ mouseIdle = 2000
    /\ eyeMode = "track"
    /\ randomPupil = {}

\* A timer that will write the empty wiggle set is pending.
RestPending ==
    \/ Pending("idle", "wiggleClear") # {}
    \/ \E i \in Pending("enter", "enterWiggle") : timers.enter[i].arg = {}

\* Whenever the wiggle set is non-empty a timer that empties it is pending,
\* and the wiggle set always becomes empty again.
WiggleRests ==
    /\ [](wiggleGroups # {} => RestPending)
    /\ (wiggleGroups # {}) ~> (wiggleGroups = {})

\* C20 as stated: the wiggle set always returns to rest, and is at rest when
\* the next idle gesture fires.
C20_RestBeforeNextGesture ==
    /\ WiggleRests
    /\ [][Delivered("idle") => wiggleGroups = {}]_vars

\* C20 amended: the wiggle set always returns to rest, and is at rest when an
\* idle gesture fires unless a pointer-enter wave is pending at that moment.
C20_RestUnlessEnterPending ==
    /\ WiggleRests
    /\ [][(Delivered("idle") /\ timers.enter = <<>>) => wiggleGroups = {}]_vars

\* The last limb of an idle wave is active and two clears are pending.
C20_LastLimb ==
    /\ wiggleGroups = {3}
    /\ Pending("idle", "waveStep") = {}
    /\ Cardinality(Pending("idle", "wiggleClear")) = 2

============================================================================
